---- MODULE Spec2Model ----
(***************************************************************************)
(* Model of the streaming connection manager of polymarket-order-book:     *)
(* class OrderBookSocket of src/lib/websocket.ts (src/unnamed/part_001).   *)
(*                                                                         *)
(* The socket is driven by a single-threaded event loop.  Every action     *)
(* below is one task of that loop: a transport event handler, a timer      *)
(* callback, or a call of the public API (close, reconnect).  The          *)
(* transports follow the WHATWG WebSocket interface the code is written    *)
(* against: readyState CONNECTING -> OPEN -> CLOSING -> CLOSED, send()     *)
(* throws InvalidStateError while CONNECTING and silently discards the     *)
(* data while CLOSING or CLOSED, an error event is always followed by the  *)
(* close event of the same transport in the same task, and a failed        *)
(* handshake is reported as error + close.  close() on a transport that is *)
(* still CONNECTING fails its connection: the readyState is CLOSING, no    *)
(* message is ever delivered, and the end is reported as error + close.    *)
(*                                                                         *)
(* Timers are those of the event loop: the pending timers are kept in the  *)
(* order of their deadlines and only the first one can expire.  A timer    *)
(* set with delay d expires after every pending timer whose own delay was  *)
(* at most d; where it falls among the others is the environment's choice. *)
(*                                                                         *)
(* Transports and timer handles are JavaScript objects that the code never *)
(* compares.  A transport is represented by its readyState: that of the    *)
(* transport this.ws refers to, and the bag of those of the transports     *)
(* this.ws no longer refers to while their handlers are still bound to the *)
(* socket.  A timer handle is represented by a mark on the pending timer   *)
(* it belongs to: the handle a field holds is that of the marked timer,    *)
(* or of an expired timer if no timer of its kind is marked.               *)
(*                                                                         *)
(* Four specifications share the variables.  Spec: a socket used on its    *)
(* own.  SpecFair: the same, with the scheduling the event loop and the    *)
(* transports guarantee.  SpecProvider: OrderBookProvider (src/contexts/   *)
(* OrderBookContext.tsx) with the sockets of its effects and the viewer    *)
(* that displays its context.  SpecTransform: the functions of             *)
(* src/lib/transforms.ts, and the queries on the books they return,        *)
(* applied to the payloads a server can send.                              *)
(***************************************************************************)
EXTENDS Integers, Sequences, FiniteSets, TLC

\* ---------------------------------------------------------------- bounds
\* Number of transports that can be connecting, open or closing at once.
MaxTransports == 2
\* Number of timers that can be pending at once.
MaxTimers == 2
\* Number of levels on the side of a payload that the transforms are applied
\* to.
MaxLevels == 2
\* Number of snapshot fetches of earlier starts that can be in flight at once,
\* and of closed sockets of earlier starts whose transport is still closing.
MaxStale == 1

\* ------------------------------------------------------ program constants
maxReconnectAttempts == 5
reconnectDelay == 1000
\* The delay of the timer reconnect() sets, and the heartbeat period.
reconnectCallDelay == 100
heartbeatInterval == 30000

\* The initial values of the provider's states precision and rowCount.
useStatePrecision == 2
useStateRowCount == 10

\* ConnectionStatus of src/types/orderbook.ts.
ConnectionStatus ==
  {"idle", "connecting", "connected", "reconnecting", "disconnected", "error",
   "fallback"}

\* WebSocket.readyState of a transport whose handlers can still run.
\* "FAILING" is the readyState CLOSING of a transport that was closed while
\* it was connecting; "CLOSING" that of one that was closed while open.
LiveStates == {"CONNECTING", "OPEN", "CLOSING", "FAILING"}

\* Those of the transport of a socket that has been closed.
ClosedStates == {"CLOSING", "FAILING"}

\* The values of ws: null, or the readyState of the transport it refers to.
WsStates == {"null"} \cup LiveStates \cup {"CLOSED"}

\* Kinds of timers: the reconnect timer of scheduleReconnect, the 100 ms
\* timer of reconnect(), the heartbeat interval.
TimerKinds == {"reconnect", "connect", "heartbeat"}

\* The transport an event comes from: the one this.ws refers to, or one it
\* no longer refers to.
Sources == {"ws", "detached"}

\* ---------------------------------------------------------------- wire data
\* A price or size on the wire is a string: a decimal numeral, represented by
\* its value in hundredths, or text that new Decimal(...) rejects and
\* parseFloat(...) turns into NaN.  NotANumber lies outside the numerals of the
\* payloads; it also stands for the number NaN.
NotANumber == 0 - 1000

Level(p, z) == [price |-> p, size |-> z]

\* A character of a hash: a hexadecimal digit, by its value, the letter x, or
\* any other character.
HexDigits == 0..15
CharX == 16
CharOther == 17

\* Order book payloads (OrderBookApiResponse: hash, bids, asks): two
\* well-formed ones with levels out of order, the hashes "0x02" and "0x01", and
\* one with a non-numeric size.
PayloadA ==
  [hash |-> <<0, CharX, 0, 2>>,
   bids |-> <<Level(1, 1), Level(2, 2)>>, asks |-> <<Level(3, 1)>>]
PayloadB ==
  [hash |-> <<0, CharX, 0, 1>>,
   bids |-> <<Level(1, 3)>>, asks |-> <<Level(4, 2), Level(3, 1)>>]
PayloadBad ==
  [hash |-> <<0, CharX, 0, 3>>,
   bids |-> <<Level(2, NotANumber)>>, asks |-> <<Level(3, 1)>>]
NoPayload == [hash |-> <<>>, bids |-> <<>>, asks |-> <<>>]

ValidPayloads == {PayloadA, PayloadB}
Payloads == ValidPayloads \cup {PayloadBad}

\* What a message event can carry: a book message, a price_change message,
\* text JSON.parse rejects.
MessageKinds == {"book", "price_change", "unparseable"}

Messages ==
  {[kind |-> "book", data |-> p] : p \in Payloads}
  \cup {[kind |-> k, data |-> NoPayload] : k \in {"price_change", "unparseable"}}

\* No message: the task is not the handling of a message event.
NoMessage == [kind |-> "none", data |-> NoPayload]

\* The markets a provider can be rendered for.
Markets == {1, 2}

\* The numbers a consumer passes to setPrecision and to setRowCount (the
\* viewer passes Number(e.target.value) of a number input): for each, one that
\* OrderBookConfigSchema accepts and one that it rejects.
PrecisionInputs == {0, 9}
RowCountInputs == {1, 0}

VARIABLES
  ws,                    \* this.ws: "null" or the readyState of its transport
  detached,              \* transports this.ws lost, handlers bound: readyState -> count
  reconnectAttempts,     \* this.reconnectAttempts
  reconnectTimer,        \* this.reconnectTimer: "null" or "handle"
  heartbeatTimer,        \* this.heartbeatTimer: "null" or "handle"
  isIntentionallyClosed, \* this.isIntentionallyClosed
  currentStatus,         \* this.currentStatus
  timers,                \* pending timers of the event loop, first to expire first
  closeDue,              \* transport whose close event ends the running task
  reconnectCalled,       \* the owner has called reconnect() at least once
  book,                  \* OrderBookProvider: the state book (Null or an OrderBook)
  status,                \* OrderBookProvider: the state status
  marketId,              \* OrderBookProvider: the prop marketId, 0 if not rendered
  mounted,               \* the variable mounted of the provider's latest effect
  socket,                \* the variable socket of that effect: "null" or "socket"
  fetching,              \* the fetchOrderBook of that effect is in flight
  staleFetches,          \* fetches in flight whose effect has been cleaned up
  retired,               \* closed sockets of earlier effects: readyState -> count
  leaked,                \* sockets of earlier effects that were never closed
  precision,             \* OrderBookProvider: the state precision
  rowCount,              \* OrderBookProvider: the state rowCount
  response,              \* the payload given to transformOrderBookResponse
  orderBook,             \* the OrderBook it returned, Null if none
  stats,                 \* what calculateOrderBookStats returned for it
  fill,                  \* what simulateFill returned for it
  lastOp,                \* the task that ran last
  statusLog,             \* statuses passed to onStatusChange by that task
  sentLog,               \* messages put on the wire of this.ws by that task
  opened,                \* number of transports that task created
  message,               \* the message that task handled, or NoMessage
  updated,               \* that task invoked the onUpdate callback
  update,                \* the OrderBook that task passed to onUpdate, or Null
  setStatusLog,          \* statuses that task passed to the provider's setStatus
  threw                  \* that task ended in an uncaught exception

vars ==
  <<ws, detached, reconnectAttempts, reconnectTimer, heartbeatTimer,
    isIntentionallyClosed, currentStatus, timers, closeDue, reconnectCalled,
    book, status, marketId, mounted, leaked, socket, fetching, staleFetches,
    retired, precision, rowCount, response, orderBook, stats, fill,
    lastOp, statusLog, sentLog, opened, message, updated, update, setStatusLog,
    threw>>

\* The value null of the provider's state book.
Null == [null |-> TRUE]

\* No socket is retired; the number of those that are.
NoneRetired == [r \in ClosedStates |-> 0]
RetiredCount == retired["CLOSING"] + retired["FAILING"]

\* calculateOrderBookStats has not been called.
NotComputed == [computed |-> FALSE]

\* The state a task works on, as one record.
Cur ==
  [ws |-> ws,
   detached |-> detached,
   reconnectAttempts |-> reconnectAttempts,
   reconnectTimer |-> reconnectTimer,
   heartbeatTimer |-> heartbeatTimer,
   isIntentionallyClosed |-> isIntentionallyClosed,
   currentStatus |-> currentStatus,
   timers |-> timers,
   statusLog |-> <<>>,
   sentLog |-> <<>>,
   opened |-> 0,
   message |-> NoMessage,
   updated |-> FALSE,
   update |-> Null,
   threw |-> FALSE,
   full |-> FALSE,
   pos |-> 0]

\* The task's state, with the environment's choice of how many of the pending
\* timers that a timer set by the task may overtake are left in front of it.
CurAt(p) == [Cur EXCEPT !.pos = p]

Min(S) == CHOOSE x \in S : \A y \in S : x <= y
Max(S) == CHOOSE x \in S : \A y \in S : x >= y

RECURSIVE Pow2(_)
Pow2(n) == IF n = 0 THEN 1 ELSE 2 * Pow2(n - 1)

\* ------------------------------------------------------------- transforms

\* The comparators of the two sorts, (a, b) => parseFloat(b.price) -
\* parseFloat(a.price) if desc and the reverse otherwise, as the sign of the
\* result; Array.prototype.sort takes a result of NaN as 0.
comparePrice(a, b, desc) ==
  IF a.price = NotANumber \/ b.price = NotANumber
  THEN 0
  ELSE IF desc THEN b.price - a.price ELSE a.price - b.price

\* Array.prototype.sort with that comparator: a stable sort, ascending, or
\* descending if desc.
RECURSIVE sortByPrice(_, _)
sortByPrice(levels, desc) ==
  IF levels = <<>>
  THEN <<>>
  ELSE LET n == Len(levels)
           x == levels[n]
           q == sortByPrice(SubSeq(levels, 1, n - 1), desc)
           \* x goes after every level it does not strictly precede
           stay == {k \in 1..Len(q) : comparePrice(q[k], x, desc) <= 0}
           at == IF stay = {} THEN 0 ELSE Max(stay)
       IN SubSeq(q, 1, at) \o <<x>> \o SubSeq(q, at + 1, Len(q))

RECURSIVE sumSizes(_, _)
sumSizes(levels, k) ==
  IF k = 0 THEN 0 ELSE levels[k].size + sumSizes(levels, k - 1)

\* transformOrders: each level with the cumulative total of the sizes up to
\* it (the timestamp Date.now() of the levels is left out).
transformOrders(levels) ==
  [k \in 1..Len(levels) |->
     [price |-> levels[k].price,
      size |-> levels[k].size,
      total |-> sumSizes(levels, k)]]

\* new Decimal(value) throws on text that is not a numeral.
decimalThrows(levels) ==
  \E k \in 1..Len(levels) :
    levels[k].price = NotANumber \/ levels[k].size = NotANumber

\* transformOrderBookResponse throws.
transformThrows(apiResponse) ==
  decimalThrows(apiResponse.bids) \/ decimalThrows(apiResponse.asks)

\* String.prototype.slice(from, to) on a sequence of characters (indices
\* from 0, to exclusive, neither negative).
slice(str, from, to) == SubSeq(str, from + 1, Min({to, Len(str)}))

RECURSIVE hexValue(_)
hexValue(digits) ==
  IF digits = <<>>
  THEN 0
  ELSE 16 * hexValue(SubSeq(digits, 1, Len(digits) - 1)) + digits[Len(digits)]

\* parseInt(str, 16) of a string without white space or sign: an optional
\* prefix 0x, then the value of the longest run of hexadecimal digits, NaN if
\* that run is empty.
parseInt16(str) ==
  LET body == IF Len(str) >= 2 /\ str[1] = 0 /\ str[2] = CharX
              THEN SubSeq(str, 3, Len(str))
              ELSE str
      run == Max({n \in 0..Len(body) : \A k \in 1..n : body[k] \in HexDigits})
  IN IF run = 0 THEN NotANumber ELSE hexValue(SubSeq(body, 1, run))

\* parseInt(apiResponse.hash.slice(2, 10), 16) || 0
lastUpdateId(apiResponse) ==
  LET n == parseInt16(slice(apiResponse.hash, 2, 10))
  IN IF n = NotANumber \/ n = 0 THEN 0 ELSE n

\* transformOrderBookResponse of a payload it does not throw on: bids by
\* falling price, asks by rising price, lastUpdateId from the hash (the
\* timestamp, taken from the payload or the clock, is left out).
transformOrderBookResponse(apiResponse) ==
  [bids |-> transformOrders(sortByPrice(apiResponse.bids, TRUE)),
   asks |-> transformOrders(sortByPrice(apiResponse.asks, FALSE)),
   lastUpdateId |-> lastUpdateId(apiResponse)]

\* The books the provider can publish.
Books == {Null} \cup {transformOrderBookResponse(p) : p \in ValidPayloads}

\* ----------------------------------------------------------------- timers

\* setTimeout(callback, delay) / setInterval(callback, delay): the timer
\* expires after the pending timers whose delay was at most its own.
\* held: the caller stores the returned handle in the field of that kind.
setTimer(s, kind, delay, held) ==
  IF Len(s.timers) >= MaxTimers
  THEN [s EXCEPT !.full = TRUE]
  ELSE LET q == s.timers
           forced == Max({0} \cup {k \in 1..Len(q) : q[k].delay <= delay})
           at == Min({forced + s.pos, Len(q)})
           t == [kind |-> kind, delay |-> delay, held |-> held]
       IN [s EXCEPT !.timers =
             SubSeq(q, 1, at) \o <<t>> \o SubSeq(q, at + 1, Len(q))]

\* clearTimeout / clearInterval of the handle the field of that kind holds:
\* cancels the timer the handle belongs to, if that timer is still pending.
clearTimer(s, kind) ==
  [s EXCEPT !.timers =
     SelectSeq(s.timers, LAMBDA t : ~(t.kind = kind /\ t.held))]

\* The field of that kind is assigned a new handle: the timer of the handle
\* it held, if still pending, is no longer referred to.
overwriteHandle(s, kind) ==
  [s EXCEPT !.timers =
     [k \in 1..Len(s.timers) |->
        IF s.timers[k].kind = kind
        THEN [s.timers[k] EXCEPT !.held = FALSE]
        ELSE s.timers[k]]]

\* ------------------------------------------------------------- transports

\* The number of transports that are connecting, open or closing.
LiveCount(s) ==
  (IF s.ws \in LiveStates THEN 1 ELSE 0)
  + s.detached["CONNECTING"] + s.detached["OPEN"] + s.detached["CLOSING"]
  + s.detached["FAILING"]

\* this.ws is assigned another value: the transport it referred to keeps its
\* handlers, and delivers its remaining events unless it is closed already.
detach(s) ==
  IF s.ws \in LiveStates
  THEN [s EXCEPT !.detached[s.ws] = s.detached[s.ws] + 1, !.ws = "null"]
  ELSE [s EXCEPT !.ws = "null"]

\* ------------------------------------------------------- private methods

updateStatus(s, newStatus) ==
  [s EXCEPT !.currentStatus = newStatus,
            !.statusLog = Append(s.statusLog, newStatus)]

stopHeartbeat(s) ==
  IF s.heartbeatTimer # "null"
  THEN [clearTimer(s, "heartbeat") EXCEPT !.heartbeatTimer = "null"]
  ELSE s

startHeartbeat(s) ==
  LET s1 == setTimer(overwriteHandle(s, "heartbeat"),
                     "heartbeat", heartbeatInterval, TRUE)
  IN IF s1.full THEN s1 ELSE [s1 EXCEPT !.heartbeatTimer = "handle"]

\* connect(): the try branch.  new WebSocket(url) with the constant, valid
\* wss URL does not throw, so the catch branch is not taken.
connect(s) ==
  LET s1 == detach(updateStatus(s, "connecting"))
  IN IF LiveCount(s1) >= MaxTransports
     THEN [s1 EXCEPT !.full = TRUE]
     ELSE [s1 EXCEPT !.ws = "CONNECTING", !.opened = s1.opened + 1]

\* scheduleReconnect with a delay that grows linearly with the attempts.
scheduleReconnect_linearBackoff(s) ==
  IF s.reconnectAttempts >= maxReconnectAttempts
  THEN updateStatus(s, "error")
  ELSE LET delay == reconnectDelay * (s.reconnectAttempts + 1)
           s1 == updateStatus(s, "reconnecting")
           s2 == setTimer(overwriteHandle(s1, "reconnect"),
                          "reconnect", delay, TRUE)
       IN IF s2.full THEN s2 ELSE [s2 EXCEPT !.reconnectTimer = "handle"]

\* scheduleReconnect with the cap compared by > instead of >=.
scheduleReconnect_capOffByOne(s) ==
  IF s.reconnectAttempts > maxReconnectAttempts
  THEN updateStatus(s, "error")
  ELSE LET delay == reconnectDelay * Pow2(s.reconnectAttempts)
           s1 == updateStatus(s, "reconnecting")
           s2 == setTimer(overwriteHandle(s1, "reconnect"),
                          "reconnect", delay, TRUE)
       IN IF s2.full THEN s2 ELSE [s2 EXCEPT !.reconnectTimer = "handle"]

scheduleReconnect(s) ==
  IF s.reconnectAttempts >= maxReconnectAttempts
  THEN updateStatus(s, "error")
  ELSE LET delay == reconnectDelay * Pow2(s.reconnectAttempts)
           s1 == updateStatus(s, "reconnecting")
           s2 == setTimer(overwriteHandle(s1, "reconnect"),
                          "reconnect", delay, TRUE)
       IN IF s2.full THEN s2 ELSE [s2 EXCEPT !.reconnectTimer = "handle"]

\* this.ws!.send(data), as handleOpen does it: on the socket's current
\* transport, whichever transport has opened.
wsSend(s, msg) ==
  IF s.ws \in {"null", "CONNECTING"}
  THEN [s EXCEPT !.threw = TRUE]
  ELSE IF s.ws = "OPEN"
       THEN [s EXCEPT !.sentLog = Append(s.sentLog, msg)]
       ELSE s

handleOpen(s) ==
  LET s1 == wsSend(s, "subscribe")
  IN IF s1.threw
     THEN s1
     ELSE startHeartbeat(
            [updateStatus(s1, "connected") EXCEPT !.reconnectAttempts = 0])

\* handleMessage with a catch block that reports the status error.
handleMessage_errorOnInvalid(s, m) ==
  IF m.kind = "book" /\ ~transformThrows(m.data)
  THEN [s EXCEPT !.updated = TRUE,
                 !.update = transformOrderBookResponse(m.data)]
  ELSE IF m.kind = "price_change" THEN s ELSE updateStatus(s, "error")

\* handleMessage: everything runs inside try/catch, so a message that cannot
\* be parsed or transformed is logged and dropped.
handleMessage(s, m) ==
  IF m.kind = "book" /\ ~transformThrows(m.data)
  THEN [s EXCEPT !.updated = TRUE,
                 !.update = transformOrderBookResponse(m.data)]
  ELSE s

\* handleClose without the call of scheduleReconnect.
handleClose_noReschedule(s) ==
  stopHeartbeat(updateStatus(s, "disconnected"))

handleClose(s) ==
  LET s1 == stopHeartbeat(updateStatus(s, "disconnected"))
  IN IF ~s1.isIntentionallyClosed THEN scheduleReconnect(s1) ELSE s1

handleError(s) == updateStatus(s, "error")

\* The callback of the reconnect timer set by scheduleReconnect.
reconnectTimerCallback(s) ==
  connect([s EXCEPT !.reconnectAttempts = s.reconnectAttempts + 1])

\* The heartbeat callback without the readyState test.
heartbeatCallback_noReadyStateTest(s) ==
  IF s.ws # "null"
  THEN [s EXCEPT !.sentLog = Append(s.sentLog, "ping")]
  ELSE s

\* The callback of the heartbeat interval set by startHeartbeat.
heartbeatCallback(s) ==
  IF s.ws # "null" /\ s.ws = "OPEN"
  THEN [s EXCEPT !.sentLog = Append(s.sentLog, "ping")]
  ELSE s

\* -------------------------------------------------------- public methods

\* this.ws.close(code, reason): starts the closing handshake of a transport
\* that is open, fails the connection of one that is connecting, and does
\* nothing otherwise.
wsClose(s) ==
  IF s.ws = "OPEN"
  THEN [s EXCEPT !.ws = "CLOSING"]
  ELSE IF s.ws = "CONNECTING" THEN [s EXCEPT !.ws = "FAILING"] ELSE s

close(s) ==
  LET s1 == [s EXCEPT !.isIntentionallyClosed = TRUE]
      s2 == IF s1.reconnectTimer # "null"
            THEN [clearTimer(s1, "reconnect") EXCEPT !.reconnectTimer = "null"]
            ELSE s1
      s3 == stopHeartbeat(s2)
      s4 == IF s3.ws # "null" THEN detach(wsClose(s3)) ELSE s3
  IN updateStatus(s4, "disconnected")

reconnect(s) ==
  LET s1 == [close(s) EXCEPT !.isIntentionallyClosed = FALSE,
                             !.reconnectAttempts = 0]
  IN setTimer(s1, "connect", reconnectCallDelay, FALSE)

\* ------------------------------------------------------------ event loop

\* The end of a task, for the socket it ran on: its result becomes the state.
CommitSocket(s, op, due) ==
  /\ ~s.full
  /\ ws' = s.ws
  /\ detached' = s.detached
  /\ reconnectAttempts' = s.reconnectAttempts
  /\ reconnectTimer' = s.reconnectTimer
  /\ heartbeatTimer' = s.heartbeatTimer
  /\ isIntentionallyClosed' = s.isIntentionallyClosed
  /\ currentStatus' = s.currentStatus
  /\ timers' = s.timers
  /\ closeDue' = due
  /\ reconnectCalled' = (reconnectCalled \/ op = "reconnect")
  /\ lastOp' = op
  /\ statusLog' = s.statusLog
  /\ sentLog' = s.sentLog
  /\ opened' = s.opened
  /\ message' = s.message
  /\ updated' = s.updated
  /\ update' = s.update
  /\ threw' = s.threw
  /\ UNCHANGED <<response, orderBook, stats, fill>>

\* onUpdate with a setBook that adds the levels to those of the book.
onUpdate_mergesLevels(s, isMounted) ==
  IF isMounted /\ s.updated
  THEN IF book = Null
       THEN s.update
       ELSE [s.update EXCEPT !.bids = book.bids \o s.update.bids,
                             !.asks = book.asks \o s.update.asks]
  ELSE book

\* onUpdate with a status callback that clears the book.
onUpdate_clearedByStatus(s, isMounted) ==
  IF isMounted /\ s.statusLog # <<>>
  THEN Null
  ELSE IF isMounted /\ s.updated THEN s.update ELSE book

\* The callbacks the provider passes to its socket, run on what a task of
\* that socket passed to onUpdate and onStatusChange: each returns at once
\* if its effect is not mounted, and otherwise sets the state.
onUpdate(s, isMounted) ==
  IF isMounted /\ s.updated THEN s.update ELSE book

\* onStatusChange without the test of mounted.
onStatusChange_noMountedTest(s, isMounted) ==
  IF s.statusLog # <<>>
  THEN s.statusLog[Len(s.statusLog)]
  ELSE status

onStatusChange(s, isMounted) ==
  IF isMounted /\ s.statusLog # <<>>
  THEN s.statusLog[Len(s.statusLog)]
  ELSE status

\* The end of a task of the socket: its result becomes the state, and what
\* it passed to its callbacks has reached the owner of the socket.
Commit(s, op, due) ==
  /\ CommitSocket(s, op, due)
  /\ book' = onUpdate(s, mounted)
  /\ status' = onStatusChange(s, mounted)
  /\ setStatusLog' = IF mounted THEN s.statusLog ELSE <<>>
  /\ UNCHANGED <<precision, rowCount, marketId, mounted, leaked, socket, fetching, staleFetches,
                 retired>>

\* The fields of a new OrderBookSocket.
fieldInitialisers ==
  [ws |-> "null",
   detached |-> [r \in LiveStates |-> 0],
   reconnectAttempts |-> 0,
   reconnectTimer |-> "null", heartbeatTimer |-> "null",
   isIntentionallyClosed |-> FALSE,
   currentStatus |-> "idle",
   timers |-> <<>>,
   statusLog |-> <<>>, sentLog |-> <<>>, opened |-> 0,
   message |-> NoMessage, updated |-> FALSE, update |-> Null,
   threw |-> FALSE, full |-> FALSE, pos |-> 0]

\* new OrderBookSocket(...): the field initialisers, then connect().  The
\* socket is used directly, by an owner other than the provider.
Init ==
  LET s0 == fieldInitialisers
      s == connect(s0)
  IN /\ ws = s.ws
     /\ detached = s.detached
     /\ reconnectAttempts = s.reconnectAttempts
     /\ reconnectTimer = s.reconnectTimer
     /\ heartbeatTimer = s.heartbeatTimer
     /\ isIntentionallyClosed = s.isIntentionallyClosed
     /\ currentStatus = s.currentStatus
     /\ timers = s.timers
     /\ closeDue = "none"
     /\ reconnectCalled = FALSE
     /\ lastOp = "constructor"
     /\ statusLog = s.statusLog
     /\ sentLog = s.sentLog
     /\ opened = s.opened
     /\ message = s.message
     /\ updated = s.updated
     /\ update = s.update
     /\ threw = s.threw
     /\ book = Null
     /\ status = "idle"
     /\ marketId = 0
     /\ mounted = FALSE
     /\ socket = "null"
     /\ fetching = FALSE
     /\ staleFetches = 0
     /\ retired = NoneRetired
     /\ leaked = 0
     /\ precision = useStatePrecision
     /\ rowCount = useStateRowCount
     /\ response = NoPayload
     /\ orderBook = Null
     /\ stats = NotComputed
     /\ fill = NotComputed
     /\ setStatusLog = <<>>

\* The readyState of a transport of that source changes from one value to
\* another ("CLOSED" for a detached transport: it leaves the bag).
Move(s, src, from, to) ==
  IF src = "ws"
  THEN [s EXCEPT !.ws = to]
  ELSE IF to = "CLOSED"
       THEN [s EXCEPT !.detached[from] = s.detached[from] - 1]
       ELSE [s EXCEPT !.detached[from] = s.detached[from] - 1,
                      !.detached[to] = s.detached[to] + 1]

\* A transport of that source has that readyState.
Has(src, r) == IF src = "ws" THEN ws = r ELSE detached[r] > 0

\* A transport reports the open of its connection (ws.onopen).
TransportOpen(src) ==
  /\ closeDue = "none"
  /\ Has(src, "CONNECTING")
  /\ Commit(handleOpen(Move(Cur, src, "CONNECTING", "OPEN")),
            "handleOpen", "none")

\* A transport delivers a message (ws.onmessage); a transport still delivers
\* what it receives while its closing handshake runs.
TransportMessage(src, m) ==
  /\ closeDue = "none"
  /\ Has(src, "OPEN") \/ Has(src, "CLOSING")
  /\ Commit(handleMessage([Cur EXCEPT !.message = m], m),
            "handleMessage", "none")

\* A transport fails (ws.onerror); its close event follows in the same task.
TransportError(src) ==
  /\ closeDue = "none"
  /\ \E r \in LiveStates :
       /\ Has(src, r)
       /\ Commit(handleError(Move(Cur, src, r, "CLOSED")), "handleError", src)

\* A transport reports its close (ws.onclose): after its error event, or
\* the clean end of an open or closing connection.
TransportClose(src, p) ==
  \/ /\ closeDue = src
     /\ Commit(handleClose(CurAt(p)), "handleClose", "none")
  \/ /\ closeDue = "none"
     /\ \E r \in {"OPEN", "CLOSING"} :
          /\ Has(src, r)
          /\ Commit(handleClose(Move(CurAt(p), src, r, "CLOSED")),
                    "handleClose", "none")

\* The first pending timer is a reconnect timer and expires.
ReconnectTimerFire ==
  /\ closeDue = "none"
  /\ timers # <<>> /\ Head(timers).kind = "reconnect"
  /\ Commit(reconnectTimerCallback([Cur EXCEPT !.timers = Tail(timers)]),
            "reconnectTimer", "none")

\* The first pending timer is the 100 ms timer of a reconnect() and expires.
ConnectTimerFire ==
  /\ closeDue = "none"
  /\ timers # <<>> /\ Head(timers).kind = "connect"
  /\ Commit(connect([Cur EXCEPT !.timers = Tail(timers)]),
            "connectTimer", "none")

\* The first pending timer is a heartbeat interval and ticks; the interval
\* stays pending, its next tick one period later.
HeartbeatTick ==
  /\ closeDue = "none"
  /\ timers # <<>> /\ Head(timers).kind = "heartbeat"
  /\ Commit(heartbeatCallback(
              [Cur EXCEPT !.timers = Append(Tail(timers), Head(timers))]),
            "heartbeat", "none")

\* The owner of the socket calls close().
Close ==
  /\ closeDue = "none"
  /\ Commit(close(Cur), "close", "none")

\* The owner of the socket calls reconnect().
Reconnect(p) ==
  /\ closeDue = "none"
  /\ Commit(reconnect(CurAt(p)), "reconnect", "none")

Next ==
  \/ \E src \in Sources : TransportOpen(src)
  \/ \E src \in Sources, m \in Messages : TransportMessage(src, m)
  \/ \E src \in Sources : TransportError(src)
  \/ \E src \in Sources, p \in 0..Len(timers) : TransportClose(src, p)
  \/ ReconnectTimerFire
  \/ ConnectTimerFire
  \/ HeartbeatTick
  \/ Close
  \/ \E p \in 0..Len(timers) : Reconnect(p)

Spec == Init /\ [][Next]_vars

\* ------------------------------------------------------ OrderBookProvider
\* The provider of src/contexts/OrderBookContext.tsx (src/unnamed/part_005):
\* its effect on [marketId] runs initializeOrderBook, and the cleanup of the
\* effect runs before the effect of the next marketId and at unmount.  The
\* socket variables are the fields of the socket of the latest effect; a
\* socket that its effect's cleanup has closed leaves them, and what is left
\* of it, a transport in its closing handshake, is counted in retired.

\* The provider's state and the variables of its latest effect.
providerVars ==
  <<book, status, precision, rowCount, marketId, mounted, leaked, socket,
    fetching, staleFetches, retired>>

\* The cleanup of the effect without the call of socket.close().
cleanup_noClose(s) == s

\* The cleanup of the effect: mounted = false, then socket.close() if the
\* effect has a socket.  The callbacks of that socket return at once.
cleanup(s) == IF socket = "socket" THEN close(s) ELSE s

\* The effect cleaned up leaves behind a socket that is not intentionally
\* closed.
Leaks(s) == socket = "socket" /\ ~s.isIntentionallyClosed

\* The fields of a task's socket are those of no socket of a mounted effect
\* any more; the pending timers and what the task did stay.
Retire(s) ==
  [fieldInitialisers EXCEPT !.timers = s.timers,
                            !.statusLog = s.statusLog,
                            !.sentLog = s.sentLog,
                            !.full = s.full]

\* The effect body: mounted = true, socket = null, and initializeOrderBook
\* up to its await: setStatus('connecting') and the call of fetchOrderBook.
\* The fetch of the effect cleaned up, if in flight, stays in flight.
RunEffect(m, op) ==
  LET s == cleanup(Cur)
  IN /\ staleFetches + (IF fetching THEN 1 ELSE 0) <= MaxStale
     /\ RetiredCount + LiveCount(s) <= MaxStale
     /\ CommitSocket(Retire(s), op, "none")
     /\ marketId' = m
     /\ mounted' = TRUE
     /\ socket' = "null"
     /\ fetching' = TRUE
     /\ staleFetches' = staleFetches + (IF fetching THEN 1 ELSE 0)
     /\ retired' = [r \in ClosedStates |-> retired[r] + s.detached[r]]
     /\ leaked' = IF Leaks(s) THEN 1 ELSE leaked
     /\ status' = "connecting"
     /\ setStatusLog' = <<"connecting">>

\* The provider is rendered, with its initial state: the effect runs.
InitProvider ==
  /\ ws = fieldInitialisers.ws
  /\ detached = fieldInitialisers.detached
  /\ reconnectAttempts = fieldInitialisers.reconnectAttempts
  /\ reconnectTimer = fieldInitialisers.reconnectTimer
  /\ heartbeatTimer = fieldInitialisers.heartbeatTimer
  /\ isIntentionallyClosed = fieldInitialisers.isIntentionallyClosed
  /\ currentStatus = fieldInitialisers.currentStatus
  /\ timers = <<>>
  /\ closeDue = "none"
  /\ reconnectCalled = FALSE
  /\ lastOp = "start"
  /\ statusLog = <<>>
  /\ sentLog = <<>>
  /\ opened = 0
  /\ message = NoMessage
  /\ updated = FALSE
  /\ update = Null
  /\ threw = FALSE
  /\ book = Null
  /\ status = "connecting"
  /\ marketId \in Markets
  /\ mounted = TRUE
  /\ socket = "null"
  /\ fetching = TRUE
  /\ staleFetches = 0
  /\ retired = NoneRetired
  /\ leaked = 0
  /\ precision = useStatePrecision
  /\ rowCount = useStateRowCount
  /\ response = NoPayload
  /\ orderBook = Null
  /\ stats = NotComputed
  /\ fill = NotComputed
  /\ setStatusLog = <<"connecting">>

\* The provider is rendered again after its unmount: a new component, whose
\* state starts from useState's initial values.
Start(m) ==
  /\ closeDue = "none"
  /\ marketId = 0
  /\ RunEffect(m, "start")
  /\ book' = Null
  /\ precision' = useStatePrecision
  /\ rowCount' = useStateRowCount

\* The provider is rendered with another marketId: the cleanup of the
\* effect, then the effect again.  Nothing sets the state book.
Restart(m) ==
  /\ closeDue = "none"
  /\ marketId \notin {0, m}
  /\ RunEffect(m, "restart")
  /\ book' = book
  /\ UNCHANGED <<precision, rowCount>>

\* The provider is unmounted: the cleanup of the effect.
Stop ==
  LET s == cleanup(Cur)
  IN /\ closeDue = "none"
     /\ marketId # 0
     /\ staleFetches + (IF fetching THEN 1 ELSE 0) <= MaxStale
     /\ RetiredCount + LiveCount(s) <= MaxStale
     /\ CommitSocket(Retire(s), "stop", "none")
     /\ marketId' = 0
     /\ mounted' = FALSE
     /\ socket' = "null"
     /\ fetching' = FALSE
     /\ staleFetches' = staleFetches + (IF fetching THEN 1 ELSE 0)
     /\ retired' = [r \in ClosedStates |-> retired[r] + s.detached[r]]
     /\ leaked' = IF Leaks(s) THEN 1 ELSE leaked
     /\ setStatusLog' = <<>>
     /\ UNCHANGED <<book, status, precision, rowCount>>

\* initializeOrderBook after its await, when fetchOrderBook has resolved
\* with an OrderBook: return if the effect is not mounted; else setBook,
\* setStatus('connected'), then new OrderBookSocket(...), whose constructor
\* calls connect() and so the status callback.
fetchResolved_noMountedTest(isMounted, p, op) ==
  LET s == connect([fieldInitialisers EXCEPT !.timers = timers])
  IN /\ CommitSocket(s, op, "none")
     /\ book' = transformOrderBookResponse(p)
     /\ status' = onStatusChange(s, TRUE)
     /\ setStatusLog' = <<"connected">> \o s.statusLog
     /\ socket' = "socket"

fetchResolved(isMounted, p, op) ==
  IF ~isMounted
  THEN /\ CommitSocket(Cur, op, "none")
       /\ setStatusLog' = <<>>
       /\ UNCHANGED <<book, status, socket>>
  ELSE LET s == connect([fieldInitialisers EXCEPT !.timers = timers])
       IN /\ CommitSocket(s, op, "none")
          /\ book' = transformOrderBookResponse(p)
          /\ status' = onStatusChange(s, TRUE)
          /\ setStatusLog' = <<"connected">> \o s.statusLog
          /\ socket' = "socket"

\* The catch block of initializeOrderBook, when fetchOrderBook has rejected:
\* setStatus('error') if the effect is mounted.
fetchRejected(isMounted, op) ==
  /\ CommitSocket(Cur, op, "none")
  /\ status' = IF isMounted THEN "error" ELSE status
  /\ setStatusLog' = IF isMounted THEN <<"error">> ELSE <<>>
  /\ UNCHANGED <<book, socket>>

\* The fetchOrderBook of the latest effect resolves.
FetchSucceeds(p) ==
  /\ closeDue = "none"
  /\ fetching
  /\ fetchResolved(mounted, p, "fetchSucceeds")
  /\ fetching' = FALSE
  /\ UNCHANGED <<precision, rowCount, marketId, mounted, leaked, staleFetches, retired>>

\* FetchFails with a catch block that fetches again.
FetchFails_retries ==
  /\ closeDue = "none"
  /\ fetching
  /\ fetchRejected(mounted, "fetchFails")
  /\ fetching' = TRUE
  /\ UNCHANGED <<precision, rowCount, marketId, mounted, leaked, staleFetches, retired>>

\* FetchFails with a catch block that opens the stream all the same.
FetchFails_opensStream ==
  LET s == connect([fieldInitialisers EXCEPT !.timers = timers])
  IN /\ closeDue = "none"
     /\ fetching
     /\ CommitSocket(s, "fetchFails", "none")
     /\ status' = "error"
     /\ setStatusLog' = <<"error">>
     /\ socket' = "socket"
     /\ fetching' = FALSE
     /\ UNCHANGED <<book, marketId, mounted, leaked, staleFetches, retired,
                  precision, rowCount>>

\* The fetchOrderBook of the latest effect rejects.
FetchFails ==
  /\ closeDue = "none"
  /\ fetching
  /\ fetchRejected(mounted, "fetchFails")
  /\ fetching' = FALSE
  /\ UNCHANGED <<precision, rowCount, marketId, mounted, leaked, staleFetches, retired>>

\* The fetchOrderBook of an effect that has been cleaned up resolves or
\* rejects: the mounted of that effect is false.
LateFetch(ok, p) ==
  /\ closeDue = "none"
  /\ staleFetches > 0
  /\ IF ok THEN fetchResolved(FALSE, p, "lateFetchSucceeds")
           ELSE fetchRejected(FALSE, "lateFetchFails")
  /\ staleFetches' = staleFetches - 1
  /\ UNCHANGED <<precision, rowCount, marketId, mounted, leaked, fetching, retired>>

\* The fields of a socket that its effect's cleanup has closed, while its
\* transport, of that readyState, has not reported its close.
RetiredSocket(r) ==
  [fieldInitialisers EXCEPT !.isIntentionallyClosed = TRUE,
                            !.detached[r] = 1,
                            !.currentStatus = "disconnected",
                            !.timers = timers]

\* The end of a task of a retired socket: its callbacks belong to an effect
\* that is not mounted, and the fields of the latest socket are not its own.
CommitRetired(r, op, due, left) ==
  /\ r.timers = timers
  /\ closeDue' = due
  /\ lastOp' = op
  /\ statusLog' = r.statusLog
  /\ sentLog' = r.sentLog
  /\ opened' = r.opened
  /\ message' = r.message
  /\ updated' = r.updated
  /\ update' = r.update
  /\ threw' = r.threw
  /\ book' = onUpdate(r, FALSE)
  /\ status' = onStatusChange(r, FALSE)
  /\ setStatusLog' = <<>>
  /\ retired' = left
  /\ UNCHANGED <<ws, detached, reconnectAttempts, reconnectTimer,
                 heartbeatTimer, isIntentionallyClosed, currentStatus, timers,
                 reconnectCalled, marketId, mounted, leaked, socket, fetching,
                 staleFetches, precision, rowCount, response, orderBook,
                 stats, fill>>

\* The closing transport of a retired socket delivers a message.
RetiredMessage(m) ==
  /\ closeDue = "none"
  /\ retired["CLOSING"] > 0
  /\ CommitRetired(
       handleMessage([RetiredSocket("CLOSING") EXCEPT !.message = m], m),
       "retiredMessage", "none", retired)

\* The closing transport of a retired socket fails; its close event follows.
RetiredError ==
  /\ closeDue = "none"
  /\ \E r \in ClosedStates :
       /\ retired[r] > 0
       /\ CommitRetired(handleError(RetiredSocket(r)), "retiredError",
                        "retired", [retired EXCEPT ![r] = retired[r] - 1])

\* The transport of a retired socket reports its close.
RetiredClose ==
  \/ /\ closeDue = "retired"
     /\ CommitRetired(handleClose(RetiredSocket("CLOSING")), "retiredClose",
                      "none", retired)
  \/ /\ closeDue = "none"
     /\ retired["CLOSING"] > 0
     /\ CommitRetired(handleClose(RetiredSocket("CLOSING")), "retiredClose",
                      "none",
                      [retired EXCEPT !["CLOSING"] = retired["CLOSING"] - 1])

\* A render of the provider after a change of the states precision or
\* rowCount alone: marketId, the one dependency of the effect, is as it was, so
\* the effect does not run; no task of a socket runs either.
renderProvider(op) ==
  /\ CommitSocket(Cur, op, "none")
  /\ setStatusLog' = <<>>
  /\ UNCHANGED <<book, status, marketId, mounted, leaked, socket, fetching,
                 staleFetches, retired>>

\* setPrecision with precision among the dependencies of the effect.
SetPrecision_inDeps(v) ==
  /\ closeDue = "none"
  /\ marketId # 0
  /\ RunEffect(marketId, "setPrecision")
  /\ precision' = v
  /\ UNCHANGED <<book, rowCount>>

\* A consumer calls setPrecision(v), the setter of the state precision.
SetPrecision(v) ==
  /\ closeDue = "none"
  /\ marketId # 0
  /\ renderProvider("setPrecision")
  /\ precision' = v
  /\ rowCount' = rowCount

\* A consumer calls setRowCount(v), the setter of the state rowCount.
SetRowCount(v) ==
  /\ closeDue = "none"
  /\ marketId # 0
  /\ renderProvider("setRowCount")
  /\ rowCount' = v
  /\ precision' = precision

NextProvider ==
  \/ \E m \in Markets : Start(m)
  \/ \E m \in Markets : Restart(m)
  \/ Stop
  \/ \E p \in ValidPayloads : FetchSucceeds(p)
  \/ FetchFails
  \/ \E ok \in BOOLEAN, p \in ValidPayloads : LateFetch(ok, p)
  \/ \E v \in PrecisionInputs : SetPrecision(v)
  \/ \E v \in RowCountInputs : SetRowCount(v)
  \/ \E src \in Sources : TransportOpen(src)
  \/ \E src \in Sources, m \in Messages : TransportMessage(src, m)
  \/ \E src \in Sources : TransportError(src)
  \/ \E src \in Sources, p \in 0..Len(timers) : TransportClose(src, p)
  \/ ReconnectTimerFire
  \/ HeartbeatTick
  \/ \E m \in Messages : RetiredMessage(m)
  \/ RetiredError
  \/ RetiredClose

SpecProvider == InitProvider /\ [][NextProvider]_vars

\* ------------------------------------------------------------------ viewer
\* OrderBookViewer, the consumer of the provider's context that displays the
\* book with the precision and the row count.

\* The numerals of the payloads have this many decimal places: a price or
\* size is represented by its value times 10 ^ WireDecimals.
WireDecimals == 2

RECURSIVE Pow10(_)
Pow10(n) == IF n = 0 THEN 1 ELSE 10 * Pow10(n - 1)

\* Decimal.prototype.toFixed(dp), dp >= 0, of the value x: the value rounded
\* to dp decimal places, half away from zero (Decimal.rounding is
\* ROUND_HALF_UP by default), times 10 ^ dp.
toFixed(x, dp) ==
  IF dp >= WireDecimals
  THEN x * Pow10(dp - WireDecimals)
  ELSE LET m == Pow10(WireDecimals - dp)
           a == IF x < 0 THEN 0 - x ELSE x
           r == (2 * a + m) \div (2 * m)
       IN IF x < 0 THEN 0 - r ELSE r

\* Array.prototype.reverse
reverse(rows) == [k \in 1..Len(rows) |-> rows[Len(rows) + 1 - k]]

\* OrderRow: the price with precision decimal places, the size and the total
\* with two.
OrderRow(order) ==
  [price |-> toFixed(order.price, precision),
   size |-> toFixed(order.size, 2),
   total |-> toFixed(order.total, 2)]

\* What OrderBookViewer renders from the context: the loading screen, the
\* error screen, or the first rowCount levels of each side, one row a level,
\* the asks from the last of them to the best.
OrderBookViewer ==
  IF status = "connecting"
  THEN [screen |-> "loading"]
  ELSE IF status = "error" \/ book = Null
       THEN [screen |-> "error"]
       ELSE LET displayBids == slice(book.bids, 0, rowCount)
                displayAsks == reverse(slice(book.asks, 0, rowCount))
            IN [screen |-> "book",
                asks |-> [k \in 1..Len(displayAsks) |-> OrderRow(displayAsks[k])],
                bids |-> [k \in 1..Len(displayBids) |-> OrderRow(displayBids[k])]]

\* ----------------------------------------------------- transforms, applied
\* transformOrderBookResponse and calculateOrderBookStats are functions of
\* their argument alone.  They are applied to the payloads a server can put
\* on the wire: on each side up to MaxLevels levels (one side at a time, the
\* other one empty or a single level), each price and size a numeral that is
\* positive, zero or negative, or not a numeral.  Prices are spaced so that
\* levels fall within 1 %, 5 % and 10 % of a mid price, and outside.

RawPrices == {NotANumber, 0, 96, 100, 104}
RawSizes == {NotANumber, 0 - 1, 0, 1}
RawLevels == {Level(p, z) : p \in RawPrices, z \in RawSizes}

SeqsUpTo(S, n) == UNION {[1..k -> S] : k \in 0..n}

OtherSides == {<<>>, <<Level(100, 1)>>}

RawPayloads ==
  {[hash |-> PayloadA.hash, bids |-> b, asks |-> a] :
     b \in SeqsUpTo(RawLevels, MaxLevels), a \in OtherSides}
  \cup
  {[hash |-> PayloadA.hash, bids |-> b, asks |-> a] :
     b \in OtherSides, a \in SeqsUpTo(RawLevels, MaxLevels)}

\* levels.reduce((total, order) => total.plus(order.size), new Decimal(0))
RECURSIVE sumOfSizes(_)
sumOfSizes(levels) ==
  IF levels = <<>>
  THEN 0
  ELSE levels[1].size + sumOfSizes(SubSeq(levels, 2, Len(levels)))

\* levels.filter(keep): the levels at the positions in keep, in their order.
RECURSIVE filter(_, _)
filter(levels, keep) ==
  IF levels = <<>>
  THEN <<>>
  ELSE LET n == Len(levels)
           front == filter(SubSeq(levels, 1, n - 1), keep)
       IN IF n \in keep THEN Append(front, levels[n]) ELSE front

\* calculateDepthAtPercentage(orderBook, percentage), percentage in
\* hundredths: with midPrice = (bestBid + bestAsk) / 2, the sizes of the bids
\* at price >= midPrice * (1 - percentage) and of the asks at price <=
\* midPrice * (1 + percentage).  1 - percentage and 1 + percentage are the
\* doubles 0.99, 0.95, 0.9, 1.01, 1.05, 1.1, which Decimal takes by their
\* decimal text, so the products are exact; both sides of each comparison are
\* multiplied by 200 here.
calculateDepthAtPercentage(ob, percentage) ==
  IF ob.bids = <<>> \/ ob.asks = <<>>
  THEN [bids |-> 0, asks |-> 0]
  ELSE LET twiceMid == ob.bids[1].price + ob.asks[1].price
           inBids == {k \in 1..Len(ob.bids) :
                        200 * ob.bids[k].price >= twiceMid * (100 - percentage)}
           inAsks == {k \in 1..Len(ob.asks) :
                        200 * ob.asks[k].price <= twiceMid * (100 + percentage)}
       IN [bids |-> sumOfSizes(filter(ob.bids, inBids)),
           asks |-> sumOfSizes(filter(ob.asks, inAsks))]

\* The record calculateOrderBookStats returns for a book with a best bid and
\* a best ask (midPrice is kept as twice its value; the quotients
\* spreadPercentage and liquidityRatio are left out).
statsRecord(ob) ==
  [spread |-> ob.asks[1].price - ob.bids[1].price,
   twiceMidPrice |-> ob.bids[1].price + ob.asks[1].price,
   bidLiquidity |-> sumOfSizes(ob.bids),
   askLiquidity |-> sumOfSizes(ob.asks),
   depthAnalysis |->
     [depth1Percent |-> calculateDepthAtPercentage(ob, 1),
      depth5Percent |-> calculateDepthAtPercentage(ob, 5),
      depth10Percent |-> calculateDepthAtPercentage(ob, 10)]]

\* calculateOrderBookStats that returns null only if both sides are empty,
\* and a record of an empty book if one side is.
calculateOrderBookStats_bothEmpty(ob) ==
  IF ob.bids = <<>> /\ ob.asks = <<>>
  THEN Null
  ELSE IF ob.bids = <<>> \/ ob.asks = <<>>
       THEN [spread |-> 0, twiceMidPrice |-> 0,
             bidLiquidity |-> sumOfSizes(ob.bids),
             askLiquidity |-> sumOfSizes(ob.asks),
             depthAnalysis |->
               [depth1Percent |-> calculateDepthAtPercentage(ob, 1),
                depth5Percent |-> calculateDepthAtPercentage(ob, 5),
                depth10Percent |-> calculateDepthAtPercentage(ob, 10)]]
       ELSE statsRecord(ob)

\* calculateOrderBookStats(orderBook): null if a side is empty.
calculateOrderBookStats(ob) ==
  IF ob.bids = <<>> \/ ob.asks = <<>> THEN Null ELSE statsRecord(ob)

\* The fields of a socket, as a tuple.
socketVars ==
  <<ws, detached, reconnectAttempts, reconnectTimer, heartbeatTimer,
    isIntentionallyClosed, currentStatus, timers, closeDue, reconnectCalled>>

\* What the tasks of a socket and of the provider record of themselves.
taskVars ==
  <<statusLog, sentLog, opened, message, updated, update, setStatusLog>>

\* A payload arrives; no socket and no provider exist.
InitTransform ==
  /\ ws = fieldInitialisers.ws
  /\ detached = fieldInitialisers.detached
  /\ reconnectAttempts = fieldInitialisers.reconnectAttempts
  /\ reconnectTimer = fieldInitialisers.reconnectTimer
  /\ heartbeatTimer = fieldInitialisers.heartbeatTimer
  /\ isIntentionallyClosed = fieldInitialisers.isIntentionallyClosed
  /\ currentStatus = fieldInitialisers.currentStatus
  /\ timers = <<>>
  /\ closeDue = "none"
  /\ reconnectCalled = FALSE
  /\ lastOp = "none"
  /\ statusLog = <<>>
  /\ sentLog = <<>>
  /\ opened = 0
  /\ message = NoMessage
  /\ updated = FALSE
  /\ update = Null
  /\ threw = FALSE
  /\ book = Null
  /\ status = "idle"
  /\ marketId = 0
  /\ mounted = FALSE
  /\ socket = "null"
  /\ fetching = FALSE
  /\ staleFetches = 0
  /\ retired = NoneRetired
  /\ leaked = 0
  /\ precision = useStatePrecision
  /\ rowCount = useStateRowCount
  /\ setStatusLog = <<>>
  /\ response \in RawPayloads
  /\ orderBook = Null
  /\ stats = NotComputed
  /\ fill = NotComputed

\* transformOrderBookResponse(response) is called: it returns an OrderBook
\* or throws.
Transform ==
  /\ lastOp = "none"
  /\ lastOp' = "transformOrderBookResponse"
  /\ threw' = transformThrows(response)
  /\ orderBook' = IF transformThrows(response)
                  THEN Null
                  ELSE transformOrderBookResponse(response)
  /\ UNCHANGED <<response, stats, fill, socketVars, providerVars, taskVars>>

\* calculateOrderBookStats(orderBook) is called on the book returned.
Stats ==
  /\ lastOp = "transformOrderBookResponse"
  /\ orderBook # Null
  /\ lastOp' = "calculateOrderBookStats"
  /\ threw' = FALSE
  /\ stats' = calculateOrderBookStats(orderBook)
  /\ UNCHANGED <<response, orderBook, fill, socketVars, providerVars,
                 taskVars>>

\* The sides of a hypothetical order, and its sizes (in hundredths): up to
\* one more than the sizes of MaxLevels levels add up to.
Sides == {"buy", "sell"}
FillSizes == 1..(MaxLevels + 1)

\* The walk of simulateFill over the levels from the k-th on, best price
\* first: each level gives what is left of the size, or all it has, until the
\* size is exhausted or the levels are.  r: the result so far.
RECURSIVE walkLevels(_, _, _)
walkLevels(levels, k, r) ==
  IF k > Len(levels) \/ r.remainingSize = 0
  THEN r
  ELSE LET taken == Min({levels[k].size, r.remainingSize})
       IN walkLevels(levels, k + 1,
            [r EXCEPT !.filledSize = r.filledSize + taken,
                      !.remainingSize = r.remainingSize - taken,
                      !.cost = r.cost + taken * levels[k].price,
                      !.levels = Append(r.levels,
                                   [price |-> levels[k].price,
                                    size |-> taken])])

\* simulateFill(orderBook, side, size): a buy consumes the asks, a sell the
\* bids; canFillCompletely = (remainingSize == 0).  cost is averagePrice
\* times filledSize (the quotients averagePrice, impact and slippage are left
\* out).
simulateFill(ob, side, size) ==
  LET opposing == IF side = "buy" THEN ob.asks ELSE ob.bids
      r == walkLevels(opposing, 1,
             [filledSize |-> 0, remainingSize |-> size, cost |-> 0,
              levels |-> <<>>])
  IN [filledSize |-> r.filledSize,
      remainingSize |-> r.remainingSize,
      cost |-> r.cost,
      levels |-> r.levels,
      canFillCompletely |-> (r.remainingSize = 0),
      side |-> side,
      size |-> size]

\* simulateFill(orderBook, side, size) is called on the book returned.
SimulateFill(side, size) ==
  /\ lastOp = "transformOrderBookResponse"
  /\ orderBook # Null
  /\ lastOp' = "simulateFill"
  /\ threw' = FALSE
  /\ fill' = simulateFill(orderBook, side, size)
  /\ UNCHANGED <<response, orderBook, stats, socketVars, providerVars,
                 taskVars>>

NextTransform ==
  \/ Transform
  \/ Stats
  \/ \E side \in Sides, size \in FillSizes : SimulateFill(side, size)

SpecTransform == InitTransform /\ [][NextTransform]_vars

TypeOK ==
  /\ ws \in WsStates
  /\ detached \in [LiveStates -> 0..MaxTransports]
  /\ reconnectAttempts \in Nat
  /\ reconnectTimer \in {"null", "handle"}
  /\ heartbeatTimer \in {"null", "handle"}
  /\ isIntentionallyClosed \in BOOLEAN
  /\ currentStatus \in ConnectionStatus
  /\ Len(timers) <= MaxTimers
  /\ \A k \in 1..Len(timers) :
       /\ timers[k].kind \in TimerKinds
       /\ timers[k].delay \in Nat
       /\ timers[k].held \in BOOLEAN
  /\ \A kind \in TimerKinds :
       Cardinality({k \in 1..Len(timers) :
                      timers[k].kind = kind /\ timers[k].held}) <= 1
  /\ closeDue \in {"none", "retired"} \cup Sources
  /\ reconnectCalled \in BOOLEAN
  /\ opened \in 0..1
  /\ message \in Messages \cup {NoMessage}
  /\ updated \in BOOLEAN
  /\ update \in Books
  /\ threw \in BOOLEAN
  /\ book \in Books
  /\ status \in ConnectionStatus
  /\ marketId \in {0} \cup Markets
  /\ mounted \in BOOLEAN
  /\ socket \in {"null", "socket"}
  /\ fetching \in BOOLEAN
  /\ staleFetches \in 0..MaxStale
  /\ retired \in [ClosedStates -> 0..MaxStale]
  /\ leaked \in 0..1
  /\ precision \in {useStatePrecision} \cup PrecisionInputs
  /\ rowCount \in {useStateRowCount} \cup RowCountInputs

\* ------------------------------------------------------------ vocabulary

\* The number of pending timers of one kind.
Pending(kind) ==
  Cardinality({k \in 1..Len(timers) : timers[k].kind = kind})

\* The timer whose handle the field of that kind holds is pending.
HeldPending(kind) ==
  \E k \in 1..Len(timers) : timers[k].kind = kind /\ timers[k].held

\* No transport is connecting, open or closing, and no close event is due.
NoLiveTransport ==
  /\ closeDue = "none"
  /\ ws \in {"null", "CLOSED"}
  /\ \A r \in LiveStates : detached[r] = 0

\* No two consecutive entries of a sequence are equal.
NoRepeat(seq) == \A k \in 1..(Len(seq) - 1) : seq[k] # seq[k + 1]

\* ------------------------------------------------------------------- C1
\* C1: as long as reconnect() has not been called, the reconnect counter
\* never passes maxReconnectAttempts; once it has reached
\* maxReconnectAttempts and the transport of that last attempt has closed,
\* the status of a socket that was not closed by its owner is error, no
\* reconnect timer is pending, and from then on no step creates a transport
\* or schedules a reconnect timer.
AttemptsExhausted ==
  reconnectAttempts = maxReconnectAttempts /\ NoLiveTransport

C1_ErrorAfterMaxAttempts ==
  [][ ~reconnectCalled' =>
        /\ reconnectAttempts' <= maxReconnectAttempts
        /\ AttemptsExhausted' =>
             /\ Pending("reconnect")' = 0
             /\ ~isIntentionallyClosed' => currentStatus' = "error"
        /\ AttemptsExhausted =>
             /\ AttemptsExhausted'
             /\ opened' = 0
             /\ timers' = timers /\ timers = <<>> ]_vars

C1_Witness ==
  /\ ~reconnectCalled
  /\ AttemptsExhausted
  /\ ~isIntentionallyClosed
  /\ currentStatus = "error"
  /\ lastOp = "handleClose"

\* ------------------------------------------------------------------- C2
\* C2: after a close() step no reconnect timer and no heartbeat timer is
\* pending, reconnectTimer and heartbeatTimer are null, the transport the
\* socket held is no longer connecting or open and the socket is
\* intentionally closed; a transport close event handled while the socket is
\* intentionally closed schedules no reconnect timer and does not set the
\* status to reconnecting.
C2_CloseCancelsAndSuppresses ==
  [][ /\ lastOp' = "close" =>
           /\ isIntentionallyClosed'
           /\ reconnectTimer' = "null" /\ heartbeatTimer' = "null"
           /\ Pending("reconnect")' = 0
           /\ Pending("heartbeat")' = 0
           /\ ws' = "null"
           /\ detached' =
                IF ws \in {"OPEN", "CLOSING"}
                THEN [detached EXCEPT !["CLOSING"] = detached["CLOSING"] + 1]
                ELSE IF ws \in {"CONNECTING", "FAILING"}
                     THEN [detached EXCEPT
                             !["FAILING"] = detached["FAILING"] + 1]
                     ELSE detached
      /\ (lastOp' = "handleClose" /\ isIntentionallyClosed) =>
           /\ Pending("reconnect")' <= Pending("reconnect")
           /\ reconnectTimer' = reconnectTimer
           /\ currentStatus' = "disconnected"
           /\ "reconnecting" \notin {statusLog'[k] : k \in 1..Len(statusLog')}
    ]_vars

\* ------------------------------------------------------------------- C3
\* C3: while the socket is intentionally closed (close() was called and
\* reconnect() has not been called since), no step creates a transport or
\* sets the status to connecting or connected.
C3_ClosedIsTerminal ==
  [][ (isIntentionallyClosed /\ isIntentionallyClosed') =>
        /\ opened' = 0
        /\ currentStatus' \notin {"connecting", "connected"} ]_vars

\* ------------------------------------------------------------------- C4
\* C4: after the close event of a transport (its own close, or the close
\* that ends the handling of a transport error) on a socket that is not
\* intentionally closed and has attempts left, the status is reconnecting
\* and exactly one reconnect timer is pending; the firing of a reconnect
\* timer adds exactly 1 to reconnectAttempts, sets the status to connecting
\* and opens a new transport.
C4_ReconnectAfterCloseOrError ==
  [][ /\ ( /\ lastOp' = "handleClose"
           /\ ~isIntentionallyClosed
           /\ reconnectAttempts < maxReconnectAttempts ) =>
           /\ currentStatus' = "reconnecting"
           /\ Pending("reconnect")' = 1
      /\ lastOp' = "reconnectTimer" =>
           /\ reconnectAttempts' = reconnectAttempts + 1
           /\ currentStatus' = "connecting"
           /\ opened' = 1 /\ ws' = "CONNECTING" ]_vars

\* ------------------------------------------------------------------- C5
\* C5: every transport-open event leaves the status connected,
\* reconnectAttempts 0 and a heartbeat interval running that
\* heartbeatTimer records.
C5_OpenConnects ==
  [][ lastOp' = "handleOpen" =>
        /\ currentStatus' = "connected"
        /\ reconnectAttempts' = 0
        /\ heartbeatTimer' = "handle" /\ HeldPending("heartbeat")' ]_vars

\* ------------------------------------------------------------------- C6
\* C6: the status becomes error only with reconnectAttempts >=
\* maxReconnectAttempts, and while the status is error no transport event
\* and no timer changes the status, notifies a status or schedules a
\* reconnect timer (only the owner's reconnect() or close() does).
C6_ErrorOnlyWhenExhaustedAndTerminal ==
  [][ /\ (currentStatus' = "error" /\ currentStatus # "error") =>
           reconnectAttempts' >= maxReconnectAttempts
      /\ (currentStatus = "error" /\ lastOp' \notin {"reconnect", "close"}) =>
           /\ currentStatus' = "error"
           /\ statusLog' = <<>>
           /\ Pending("reconnect")' <= Pending("reconnect") ]_vars

\* ------------------------------------------------------------------- C7
\* C7: reconnect() leaves reconnectAttempts at 0, and the connection attempt
\* it schedules is the only one: while its 100 ms timer is pending no
\* reconnect timer is pending beside it.
C7_ReconnectRestartsOnce ==
  /\ lastOp = "reconnect" => reconnectAttempts = 0
  /\ Pending("connect") > 0 => Pending("reconnect") = 0

\* ------------------------------------------------------------------- C8
\* C8: the statuses passed to the status-change callback never repeat: no
\* task notifies the status the socket already has, nor the same status
\* twice in a row.
C8_NoDuplicateNotification ==
  [][ NoRepeat(<<currentStatus>> \o statusLog') ]_vars

\* ------------------------------------------------------------------- C9
\* C9: the close event of a transport of a socket that is not intentionally
\* closed notifies disconnected and moves on, in the same task, to
\* reconnecting (attempts left) or error (attempts exhausted); the status is
\* disconnected only while the socket is intentionally closed or in the
\* 100 ms between the close() inside reconnect() and its connect().
C9_DisconnectedIsTransient ==
  [][ /\ (lastOp' = "handleClose" /\ ~isIntentionallyClosed) =>
           /\ Len(statusLog') = 2
           /\ statusLog'[1] = "disconnected"
           /\ currentStatus' = statusLog'[2]
           /\ currentStatus' =
                IF reconnectAttempts < maxReconnectAttempts
                THEN "reconnecting" ELSE "error"
      /\ currentStatus' = "disconnected" =>
           isIntentionallyClosed' \/ Pending("connect")' > 0 ]_vars

C9_Witness ==
  /\ lastOp = "handleClose"
  /\ ~isIntentionallyClosed
  /\ statusLog = <<"disconnected", "reconnecting">>
  /\ currentStatus = "reconnecting"

\* ------------------------------------------------------------------ C10
\* C10: a heartbeat tick puts one ping on the current transport if that
\* transport exists and is open, and nothing on the wire otherwise; in
\* either case it raises no exception, notifies no status and leaves the
\* status, reconnectAttempts, the timers and the transports unchanged.
C10_HeartbeatTick ==
  [][ lastOp' = "heartbeat" =>
        /\ sentLog' = IF ws = "OPEN" THEN <<"ping">> ELSE <<>>
        /\ ~threw'
        /\ statusLog' = <<>>
        /\ currentStatus' = currentStatus
        /\ reconnectAttempts' = reconnectAttempts
        /\ timers' = Append(Tail(timers), Head(timers))
        /\ reconnectTimer' = reconnectTimer
        /\ heartbeatTimer' = heartbeatTimer
        /\ ws' = ws /\ detached' = detached /\ opened' = 0 ]_vars

\* A tick found the current transport not open and sent nothing.
C10_Witness ==
  /\ lastOp = "heartbeat"
  /\ sentLog = <<>>
  /\ ws \notin {"null", "OPEN"}

\* ------------------------------------------------------------------ C11
\* The delay of the reconnect timer whose handle reconnectTimer holds.
HeldReconnectDelay ==
  LET k == CHOOSE j \in 1..Len(timers) :
             timers[j].kind = "reconnect" /\ timers[j].held
  IN timers[k].delay

\* The largest delay the code computes: that of the last attempt allowed.
LargestBackoff == reconnectDelay * Pow2(maxReconnectAttempts - 1)

\* C11: the reconnect timer a close event schedules while reconnectAttempts
\* is a < maxReconnectAttempts has the delay
\* min(reconnectDelay * 2^a, cap) + jitter with jitter = 0 (the code adds
\* none) and cap the largest delay the code computes (the code has no cap of
\* its own: the bound on a keeps the delay below it); so the delay is
\* exactly reconnectDelay * 2^a and never above the cap.
C11_BackoffDelay ==
  [][ ( /\ lastOp' = "handleClose"
        /\ ~isIntentionallyClosed
        /\ reconnectAttempts < maxReconnectAttempts ) =>
        /\ HeldPending("reconnect")'
        /\ \E jitter \in 0..0 :
             HeldReconnectDelay' =
               Min({reconnectDelay * Pow2(reconnectAttempts), LargestBackoff})
               + jitter
        /\ HeldReconnectDelay' = reconnectDelay * Pow2(reconnectAttempts)
        /\ HeldReconnectDelay' <= LargestBackoff ]_vars

\* The reconnect of the last attempt allowed is scheduled, 16 s ahead.
C11_Witness ==
  /\ lastOp = "handleClose"
  /\ reconnectAttempts = maxReconnectAttempts - 1
  /\ HeldPending("reconnect")
  /\ HeldReconnectDelay = 16 * reconnectDelay

\* ------------------------------------------------------------------ C12
\* C12: the provider opens the stream only after a snapshot has been
\* fetched and applied.  While the published book is null, as it is from the
\* start, the effect has no socket, no transport exists and no timer is
\* pending, and only the success of the mounted effect's fetch ends that:
\* every other step leaves the book null, creates no socket and no
\* transport and passes no book to onUpdate of a mounted effect.
C12_StreamAfterSnapshot ==
  [][ book = Null =>
        /\ socket = "null" /\ ws = "null" /\ timers = <<>>
        /\ lastOp' # "fetchSucceeds" =>
             /\ book' = Null
             /\ socket' = "null" /\ ws' = "null"
             /\ opened' = 0 ]_vars

\* A restart is waiting for its snapshot and none has been applied so far.
C12_Witness ==
  /\ book = Null
  /\ lastOp = "restart"
  /\ status = "connecting"
  /\ fetching /\ socket = "null"

\* ------------------------------------------------------------------ C13
\* C13: the task in which the snapshot fetch of the mounted effect succeeds
\* leaves the published status connected and the published book a
\* transformed snapshot, and sets the status to connecting neither in that
\* task nor later without a transport event, a timer or a restart.
C13_ConnectedAfterSnapshot ==
  [][ /\ lastOp' = "fetchSucceeds" =>
           /\ status' = "connected"
           /\ book' \in Books \ {Null}
           /\ \A k \in 1..Len(setStatusLog') : setStatusLog'[k] # "connecting"
      /\ (status = "connected" /\ status' = "connecting") =>
           lastOp' \in {"start", "restart"} ]_vars

\* ------------------------------------------------------------------ C14
\* C14: the task in which the snapshot fetch of the mounted effect fails
\* leaves the status error and the book as it was, creates no socket and no
\* transport and starts no fetch; a fetch is started only by the effect,
\* when the provider is rendered or rendered with another marketId.
C14_FetchFailure ==
  [][ /\ lastOp' = "fetchFails" =>
           /\ status' = "error"
           /\ book' = book
           /\ socket' = "null" /\ ws' = "null" /\ opened' = 0
           /\ timers' = <<>>
           /\ ~fetching' /\ staleFetches' = staleFetches
      /\ (fetching' /\ ~fetching) \/ staleFetches' > staleFetches =>
           lastOp' \in {"start", "restart", "stop"} ]_vars

\* The fetch of a restart failed: the book of the start before it stays.
C14_Witness ==
  /\ lastOp = "fetchFails"
  /\ status = "error"
  /\ book # Null
  /\ socket = "null" /\ ~fetching

\* ------------------------------------------------------------------ C15
\* C15: the completion, by success or by failure, of a snapshot fetch whose
\* effect has been cleaned up (the provider unmounted, or rendered with
\* another marketId) changes neither the published book nor the published
\* status, calls no setStatus and creates no socket and no transport.
C15_LateFetchDiscarded ==
  [][ lastOp' \in {"lateFetchSucceeds", "lateFetchFails"} =>
        /\ book' = book
        /\ status' = status
        /\ setStatusLog' = <<>>
        /\ socket' = socket /\ ws' = ws /\ opened' = 0
        /\ timers' = timers
        /\ fetching' = fetching ]_vars

\* The fetch of the first market resolved after the restart for the second,
\* whose own fetch is still in flight.
C15_Witness ==
  /\ lastOp = "lateFetchSucceeds"
  /\ fetching /\ mounted
  /\ book = Null
  /\ status = "connecting"

\* ------------------------------------------------------------------ C16
\* C16: when the provider is rendered with another marketId (or unmounted)
\* the socket of the effect cleaned up is closed intentionally, in the same
\* task and before the next fetch starts: no socket of an earlier effect is
\* left that is not intentionally closed, the only socket that can be open
\* is that of the mounted effect, and a book message is merged by that
\* effect alone: one that its socket delivers replaces the book, one that a
\* closed socket of an earlier effect delivers is merged by nobody.
C16_OneLiveSocket ==
  [][ /\ leaked' = 0
      /\ socket' = "socket" => mounted'
      /\ (lastOp' \in {"restart", "stop"} /\ socket = "socket") =>
           /\ statusLog' = <<"disconnected">>
           /\ ws' = "null" /\ timers' = <<>>
           /\ RetiredCount' =
                RetiredCount + (IF ws \in LiveStates THEN 1 ELSE 0)
      /\ (lastOp' = "handleMessage" /\ updated') => book' = update'
      /\ lastOp' = "retiredMessage" => book' = book ]_vars

\* After a restart, the closing transport of the previous market's socket
\* delivers a book message.
C16_Witness ==
  /\ lastOp = "retiredMessage"
  /\ updated
  /\ mounted
  /\ book # update

\* ------------------------------------------------------------------ C17
\* C17: when the provider is rendered with another marketId the published
\* book becomes null, and it stays null until the snapshot of the new
\* market is applied: no other step, the failure of the new fetch included,
\* publishes a book while the new fetch has not succeeded.
C17_RestartDropsBook ==
  [][ /\ lastOp' = "restart" => book' = Null
      /\ (socket = "null" /\ lastOp' # "fetchSucceeds") =>
           (book' = Null \/ marketId' = 0) ]_vars

\* ------------------------------------------------------------------ C18
\* C18: a task in which a socket reports a status to the provider (the
\* open, close or error of a transport, a reconnect timer) leaves the
\* published book as it was, whatever the status: the book stays published
\* while the status is reconnecting and after the attempts are exhausted.
C18_StatusKeepsBook ==
  [][ ( /\ statusLog' # <<>>
        /\ lastOp' \notin {"start", "restart", "stop", "fetchSucceeds"} ) =>
        book' = book ]_vars

\* The attempts are exhausted and the snapshot is still published.
C18_Witness ==
  /\ lastOp = "handleClose"
  /\ reconnectAttempts = maxReconnectAttempts
  /\ setStatusLog = <<"disconnected", "error">>
  /\ status = "error"
  /\ book # Null

\* ------------------------------------------------------------------ C19
\* A message JSON.parse or transformOrderBookResponse throws on.
Malformed(m) ==
  m.kind = "unparseable" \/ (m.kind = "book" /\ transformThrows(m.data))

ValidBook(m) == m.kind = "book" /\ ~transformThrows(m.data)

\* C20: the published book is replaced as a whole, message by message: a
\* valid book message that the socket of the mounted effect delivers leaves
\* the book equal to transformOrderBookResponse of that message alone, any
\* other message leaves the book as it was, the snapshot is published as
\* transformed, and no other task changes the book.  So after any sequence
\* of messages the book is that of the last valid book message, or the
\* snapshot if there was none.
C20_FullReplacement ==
  [][ /\ lastOp' = "handleMessage" =>
           book' = IF ValidBook(message')
                   THEN transformOrderBookResponse(message'.data)
                   ELSE book
      /\ lastOp' = "fetchSucceeds" =>
           book' \in {transformOrderBookResponse(p) : p \in ValidPayloads}
      /\ lastOp' \notin {"handleMessage", "fetchSucceeds", "start"} =>
           book' = book ]_vars

\* The book message B has been delivered: its asks are published in rising
\* order with their cumulative totals, and nothing else.
C20_Witness ==
  /\ lastOp = "handleMessage"
  /\ message = [kind |-> "book", data |-> PayloadB]
  /\ book = [bids |-> <<[price |-> 1, size |-> 3, total |-> 3]>>,
             asks |-> <<[price |-> 3, size |-> 1, total |-> 1],
                        [price |-> 4, size |-> 2, total |-> 3]>>,
             lastUpdateId |-> 1]

\* ---------------------------------------------------------------- C21
\* C21: across the books the provider publishes for one market (the snapshot,
\* then the book of each accepted book message), lastUpdateId never
\* decreases: a book message that replaces the published book carries a
\* lastUpdateId at least that of the book it replaces.
C21_LastUpdateIdMonotone ==
  [][ (lastOp' = "handleMessage" /\ book # Null /\ book' # Null) =>
        book'.lastUpdateId >= book.lastUpdateId ]_vars

\* ---------------------------------------------------------------- C22
\* C22: a change of the display configuration (setPrecision, setRowCount)
\* starts no snapshot fetch, opens no stream and closes none (no transport is
\* created, none changes its readyState, no socket is created, closed or
\* retired, nothing is sent), and leaves the published book and the published
\* status as they were.
C22_ConfigChangeIsLocal ==
  [][ lastOp' \in {"setPrecision", "setRowCount"} =>
        /\ fetching' = fetching
        /\ staleFetches' = staleFetches
        /\ opened' = 0
        /\ sentLog' = <<>>
        /\ socket' = socket
        /\ ws' = ws
        /\ detached' = detached
        /\ retired' = retired
        /\ leaked' = leaked
        /\ isIntentionallyClosed' = isIntentionallyClosed
        /\ timers' = timers
        /\ book' = book
        /\ status' = status
        /\ setStatusLog' = <<>> ]_vars

\* The precision has been changed while the provider publishes a book and its
\* stream is open.
C22_Witness ==
  /\ lastOp = "setPrecision"
  /\ precision # useStatePrecision
  /\ book # Null
  /\ socket = "socket"
  /\ ws = "OPEN"
  /\ status = "connected"

\* ---------------------------------------------------------------- C23
\* C23: in every reachable state of the provider the precision is within 0..8
\* and the row count is a positive integer (a setPrecision or setRowCount with
\* a value out of range is rejected and the configuration stays as it was).
C23_ConfigInRange ==
  /\ precision \in 0..8
  /\ rowCount >= 1

\* ------------------------------------------------- vocabulary of the books

\* The prices of the levels strictly fall (desc) or strictly rise along the
\* sequence: in particular no two levels have the same price.
StrictlySorted(levels, desc) ==
  \A k \in 1..(Len(levels) - 1) :
    IF desc THEN levels[k].price > levels[k + 1].price
            ELSE levels[k].price < levels[k + 1].price

\* The sum of the sizes of the levels at the positions in K.
RECURSIVE SizeAt(_, _)
SizeAt(levels, K) ==
  IF K = {}
  THEN 0
  ELSE LET k == CHOOSE x \in K : TRUE
       IN levels[k].size + SizeAt(levels, K \ {k})

\* The price or the size of the level is text that is not a numeral.
NotNumeral(level) == level.price = NotANumber \/ level.size = NotANumber

\* The level has a price that is not positive or a size that is negative.
OutOfRange(level) ==
  /\ ~NotNumeral(level)
  /\ (level.price <= 0 \/ level.size < 0)

\* The levels of both sides of a payload or of a book.
LevelsOf(b) ==
  {b.bids[k] : k \in 1..Len(b.bids)} \cup {b.asks[k] : k \in 1..Len(b.asks)}

\* transformOrderBookResponse has returned a book for the payload.
Transformed == lastOp # "none" /\ ~threw /\ orderBook # Null

\* ---------------------------------------------------------------- C24
\* C24: the book transformOrderBookResponse builds from a payload has its bids
\* in strictly falling order of price and its asks in strictly rising order
\* of price: no two levels of a side have the same price.
C24_StrictlySorted ==
  Transformed =>
    /\ StrictlySorted(orderBook.bids, TRUE)
    /\ StrictlySorted(orderBook.asks, FALSE)

\* ---------------------------------------------------------------- C25
\* The totals of a side of a book are the running sums of its sizes, they do
\* not fall along the side, and the last one is the sum of the sizes of that
\* side of the payload.
RunningTotals(levels, raw) ==
  /\ \A i \in 1..Len(levels) : levels[i].total = SizeAt(levels, 1..i)
  /\ \A i \in 2..Len(levels) : levels[i].total >= levels[i - 1].total
  /\ Len(levels) = Len(raw)
  /\ levels # <<>> => levels[Len(levels)].total = SizeAt(raw, 1..Len(raw))

\* C25: in the book transformOrderBookResponse builds, on each side total[i]
\* is the sum of the sizes of the levels 0..i in the sorted order of the side,
\* so the totals do not fall away from the best price and the last total is
\* the total size of the side.
C25_CumulativeTotals ==
  Transformed =>
    /\ RunningTotals(orderBook.bids, response.bids)
    /\ RunningTotals(orderBook.asks, response.asks)

\* ---------------------------------------------------------------- C26
\* C26: a payload with a level whose price is not positive or whose size is
\* negative is rejected as a whole: transformOrderBookResponse fails and no
\* book is built from it; so every level of every book built has a positive
\* price and a positive size.
C26_InvalidLevelRejected ==
  lastOp # "none" =>
    /\ (\E l \in LevelsOf(response) : OutOfRange(l)) =>
         (threw /\ orderBook = Null)
    /\ orderBook # Null =>
         \A l \in LevelsOf(orderBook) : l.price > 0 /\ l.size > 0

\* ---------------------------------------------------------------- C27
\* The payload without its levels of size zero.
WithoutZeroSizes(raw) ==
  [raw EXCEPT
     !.bids = filter(raw.bids, {k \in 1..Len(raw.bids) : raw.bids[k].size # 0}),
     !.asks = filter(raw.asks, {k \in 1..Len(raw.asks) : raw.asks[k].size # 0})]

\* C27: a level of size zero in a payload whose other levels are valid is
\* dropped and the payload does not fail: the book built has every level of
\* the payload whose size is not zero, no level of size zero, and the totals
\* of the levels kept.
C27_ZeroSizeDropped ==
  ( /\ lastOp # "none"
    /\ \E l \in LevelsOf(response) : l.size = 0
    /\ \A l \in LevelsOf(response) : ~NotNumeral(l) /\ ~OutOfRange(l) ) =>
      /\ ~threw
      /\ orderBook # Null
      /\ \A l \in LevelsOf(orderBook) : l.size # 0
      /\ orderBook = transformOrderBookResponse(WithoutZeroSizes(response))

\* ---------------------------------------------------------------- C28
\* C28: calculateOrderBookStats(book) returns null if and only if the bids of
\* the book are empty or its asks are; for a book with a bid and an ask it
\* returns a stats record.
C28_StatsNullIffSideEmpty ==
  lastOp = "calculateOrderBookStats" =>
    /\ stats = Null <=> (orderBook.bids = <<>> \/ orderBook.asks = <<>>)
    /\ stats # Null => DOMAIN stats = DOMAIN statsRecord(orderBook)

\* calculateOrderBookStats has returned null for a book that has bids and no
\* asks.
C28_Witness ==
  /\ lastOp = "calculateOrderBookStats"
  /\ stats = Null
  /\ orderBook.bids # <<>>
  /\ orderBook.asks = <<>>

\* ---------------------------------------------------------------- C29
\* The sizes of the bids at a price at least midPrice * (1 - pct %) and of the
\* asks at a price at most midPrice * (1 + pct %), where midPrice is
\* (bestBid + bestAsk) / 2.
DepthWithin(ob, pct) ==
  LET twiceMid == ob.bids[1].price + ob.asks[1].price
  IN [bids |-> SizeAt(ob.bids, {k \in 1..Len(ob.bids) :
                 200 * ob.bids[k].price >= twiceMid * (100 - pct)}),
      asks |-> SizeAt(ob.asks, {k \in 1..Len(ob.asks) :
                 200 * ob.asks[k].price <= twiceMid * (100 + pct)})]

\* C29: for a book with a bid and an ask, the depth calculateOrderBookStats
\* reports at 1 %, 5 % and 10 % is the size of the bids at a price of at least
\* midPrice * (1 - p) and of the asks at a price of at most midPrice * (1 + p);
\* hence, if the prices are positive, on each side the depth at 1 % is at
\* most that at 5 %, that at most the depth at 10 %, and that at most the
\* liquidity of the side.
C29_DepthAtPercentage ==
  (lastOp = "calculateOrderBookStats" /\ stats # Null) =>
    LET d == stats.depthAnalysis
    IN /\ d.depth1Percent = DepthWithin(orderBook, 1)
       /\ d.depth5Percent = DepthWithin(orderBook, 5)
       /\ d.depth10Percent = DepthWithin(orderBook, 10)
       /\ (\A l \in LevelsOf(orderBook) : l.price > 0) =>
            /\ d.depth1Percent.bids <= d.depth5Percent.bids
            /\ d.depth5Percent.bids <= d.depth10Percent.bids
            /\ d.depth10Percent.bids <= stats.bidLiquidity
            /\ d.depth1Percent.asks <= d.depth5Percent.asks
            /\ d.depth5Percent.asks <= d.depth10Percent.asks
            /\ d.depth10Percent.asks <= stats.askLiquidity

\* ---------------------------------------------------------------- C30
\* The rows displayed for a side are the buckets of its levels by rounded
\* price: no two rows show the same price, the sizes of the rows add up to
\* the size of the side, and the total of a row is the sum of the sizes of
\* the rows from the best price to it.  rows: from the best price on.
Buckets(rows, levels) ==
  /\ \A i, j \in 1..Len(rows) : i # j => rows[i].price # rows[j].price
  /\ SizeAt(rows, 1..Len(rows)) = toFixed(SizeAt(levels, 1..Len(levels)), 2)
  /\ \A i \in 1..Len(rows) : rows[i].total = SizeAt(rows, 1..i)

\* C30: the levels displayed at a precision are the levels of each side of
\* the book grouped by their price rounded half up to that precision: every
\* level is counted in one bucket, the bucket sizes add up to the size of the
\* side, the total of a bucket is the running sum of the bucket sizes, and
\* two levels that round to the same price are one bucket, not two rows.
C30_AggregatedByPrecision ==
  (mounted /\ OrderBookViewer.screen = "book" /\ precision \in 0..8) =>
     /\ Buckets(OrderBookViewer.bids, book.bids)
     /\ Buckets(reverse(OrderBookViewer.asks), book.asks)

\* ------------------------------------------------------------------- C31
\* C31: simulateFill(book, side, size) with size greater than the total
\* liquidity of the opposing side returns canFillCompletely = false,
\* filledSize equal to that total liquidity and remainingSize = size -
\* filledSize > 0, and leaves the book as it was.
OpposingLiquidity(ob, side) ==
  sumOfSizes(IF side = "buy" THEN ob.asks ELSE ob.bids)

C31_FillBeyondLiquidity ==
  [][ ( /\ lastOp' = "simulateFill"
        /\ fill'.size > OpposingLiquidity(orderBook, fill'.side) ) =>
        /\ ~fill'.canFillCompletely
        /\ fill'.filledSize = OpposingLiquidity(orderBook, fill'.side)
        /\ fill'.remainingSize = fill'.size - fill'.filledSize
        /\ fill'.remainingSize > 0
        /\ orderBook' = orderBook ]_vars

\* ------------------------------------------------------------------- C32
\* C32: every transport that reaches open gets exactly one subscription
\* message: the task of its open event sends one subscription, on that
\* transport, and then sets the status to connected, and no other task sends
\* a subscription; no subscription is sent on a transport that is not open.
Subscriptions(log) == Cardinality({k \in 1..Len(log) : log[k] = "subscribe"})

C32_SubscribedOnOpen ==
  [][ /\ lastOp' = "handleOpen" =>
           /\ ws = "CONNECTING" /\ ws' = "OPEN"
           /\ Subscriptions(sentLog') = 1
           /\ ~threw'
           /\ statusLog' = <<"connected">>
      /\ lastOp' # "handleOpen" => Subscriptions(sentLog') = 0
      /\ Subscriptions(sentLog') > 0 => ws' = "OPEN" ]_vars

\* ------------------------------------------------------------------- C33
\* The scheduling the event loop and the transports guarantee: the first
\* pending timer expires; a close event that is due follows its error event;
\* a transport that is connecting opens or fails, and one that is closing
\* closes.  Nothing obliges an open transport to close or to deliver a
\* message, nor the owner to call close() or reconnect().

\* The end of a task whose result is t.
Do(t, op, due) == \E s \in {t} : Commit(s, op, due)

\* What the callback of the first pending timer returns.
timerCallback ==
  IF Head(timers).kind = "reconnect"
  THEN reconnectTimerCallback([Cur EXCEPT !.timers = Tail(timers)])
  ELSE IF Head(timers).kind = "connect"
       THEN connect([Cur EXCEPT !.timers = Tail(timers)])
       ELSE heartbeatCallback(
              [Cur EXCEPT !.timers = Append(Tail(timers), Head(timers))])

\* The first pending timer expires (a step of ReconnectTimerFire,
\* ConnectTimerFire or HeartbeatTick).
TimerFires ==
  /\ closeDue = "none"
  /\ timers # <<>>
  /\ Do(timerCallback,
        IF Head(timers).kind = "heartbeat"
        THEN "heartbeat"
        ELSE Head(timers).kind \o "Timer",
        "none")

\* The close event that is due is delivered (a step of TransportClose).
CloseIsDelivered ==
  /\ closeDue # "none"
  /\ \E p \in 0..Len(timers) : Do(handleClose(CurAt(p)), "handleClose", "none")

\* A connecting transport opens (a step of TransportOpen).
AttemptSucceeds(src) ==
  /\ closeDue = "none"
  /\ Has(src, "CONNECTING")
  /\ Do(handleOpen(Move(Cur, src, "CONNECTING", "OPEN")), "handleOpen", "none")

\* The handshake of a connecting transport fails (a step of TransportError).
AttemptFails(src) ==
  /\ closeDue = "none"
  /\ Has(src, "CONNECTING")
  /\ Do(handleError(Move(Cur, src, "CONNECTING", "CLOSED")), "handleError", src)

\* The closing handshake of a transport ends (a step of TransportClose).
ClosingEnds(src) ==
  /\ closeDue = "none"
  /\ Has(src, "CLOSING")
  /\ \E p \in 0..Len(timers) :
       Do(handleClose(Move(CurAt(p), src, "CLOSING", "CLOSED")),
          "handleClose", "none")

\* The failed connection of a transport that was closed while it was
\* connecting is reported (a step of TransportError).
FailureIsReported(src) ==
  /\ closeDue = "none"
  /\ Has(src, "FAILING")
  /\ Do(handleError(Move(Cur, src, "FAILING", "CLOSED")), "handleError", src)

AttemptResolves(src) ==
  \/ AttemptSucceeds(src)
  \/ AttemptFails(src)
  \/ ClosingEnds(src)
  \/ FailureIsReported(src)

Fairness ==
  /\ WF_vars(TimerFires)
  /\ WF_vars(CloseIsDelivered)
  /\ \A src \in Sources : WF_vars(AttemptResolves(src))

SpecFair == Spec /\ Fairness

\* A step the scheduling calls for would leave the bounds of the model: a
\* behaviour that stays in such a state has been cut short.
Truncated ==
  IF closeDue # "none"
  THEN \E p \in 0..Len(timers) : handleClose(CurAt(p)).full
  ELSE \/ timers # <<>> /\ timerCallback.full
       \/ \E src \in Sources :
            \/ /\ Has(src, "CONNECTING")
               /\ handleOpen(Move(Cur, src, "CONNECTING", "OPEN")).full
            \/ /\ Has(src, "CLOSING")
               /\ \E p \in 0..Len(timers) :
                    handleClose(Move(CurAt(p), src, "CLOSING", "CLOSED")).full

\* C33: under that scheduling a socket does not stay forever in connecting,
\* disconnected or reconnecting unless it is intentionally closed: again and
\* again it is intentionally closed, or its owner has just called
\* reconnect(), or its status is connected, or its status is error and no
\* timer is pending.
Settled ==
  /\ closeDue = "none"
  /\ \/ currentStatus = "connected"
     \/ currentStatus = "error" /\ timers = <<>>

C33_EventuallySettled ==
  []<>(isIntentionallyClosed \/ lastOp = "reconnect" \/ Settled \/ Truncated)

\* ------------------------------------------------------------------- C34
\* C34: at any time at most one transport of the socket is connecting or
\* open, and no step creates a transport while an earlier transport of the
\* socket is still connecting or open.
ConnectingOrOpen ==
  (IF ws \in {"CONNECTING", "OPEN"} THEN 1 ELSE 0)
  + detached["CONNECTING"] + detached["OPEN"]

C34_OneTransport ==
  [][ /\ ConnectingOrOpen' <= 1
      /\ opened' > 0 => ConnectingOrOpen = 0 ]_vars

\* ------------------------------------------------------------------- C35
\* C35: the handling of an open, message, close or error event of a
\* transport that is no longer the socket's current transport changes
\* neither the status nor reconnectAttempts nor any timer; in particular the
\* close event of a transport that reconnect() dropped schedules no
\* reconnect timer.
\* The step handles an event of a transport this.ws no longer refers to.
StaleEvent ==
  \/ /\ lastOp' \in {"handleOpen", "handleError", "handleClose"}
     /\ detached' # detached \/ closeDue = "detached"
  \/ /\ lastOp' = "handleMessage"
     /\ ws \notin {"OPEN", "CLOSING"}

C35_StaleEventsIgnored ==
  [][ StaleEvent =>
        /\ currentStatus' = currentStatus
        /\ reconnectAttempts' = reconnectAttempts
        /\ timers' = timers
        /\ reconnectTimer' = reconnectTimer
        /\ heartbeatTimer' = heartbeatTimer ]_vars

\* ------------------------------------------------------------------- C36
\* C36: in every reachable state, 0 <= reconnectAttempts <=
\* maxReconnectAttempts.
C36_AttemptsInRange ==
  0 <= reconnectAttempts /\ reconnectAttempts <= maxReconnectAttempts

\* ------------------------------------------------------------------- C37
\* C37: at any time at most one reconnect timer is pending and at most one
\* heartbeat interval is running, every pending timer is the one whose
\* handle reconnectTimer or heartbeatTimer holds, and after close() no timer
\* of the socket is pending.
Recorded(t) ==
  /\ t.held
  /\ \/ t.kind = "reconnect" /\ reconnectTimer = "handle"
     \/ t.kind = "heartbeat" /\ heartbeatTimer = "handle"

TimersRecorded ==
  /\ Pending("reconnect") <= 1
  /\ Pending("heartbeat") <= 1
  /\ \A k \in 1..Len(timers) : Recorded(timers[k])

C37_TimersRecorded ==
  [][ /\ TimersRecorded'
      /\ lastOp' = "close" => timers' = <<>> ]_vars

\* ------------------------------------------------------------------- C38
\* C38: once the cleanup of an effect of the provider has run (unmount, or
\* another marketId), no event of that effect changes the published book or
\* the published status: neither the completion of its snapshot fetch, nor
\* a book message, an error or a close of its socket's transport, nor the
\* status its socket reports when the cleanup closes it.
AfterCleanup ==
  {"lateFetchSucceeds", "lateFetchFails", "retiredMessage", "retiredError",
   "retiredClose"}

C38_NothingAfterCleanup ==
  [][ /\ lastOp' \in AfterCleanup =>
           /\ book' = book
           /\ status' = status
           /\ setStatusLog' = <<>>
      /\ lastOp' = "stop" =>
           /\ book' = book
           /\ status' = status
           /\ setStatusLog' = <<>> ]_vars

\* The transport of the previous market's socket reports its close, and so
\* that socket the status disconnected, after the socket of the new market
\* has connected.
C38_Witness ==
  /\ lastOp = "retiredClose"
  /\ statusLog = <<"disconnected">>
  /\ mounted
  /\ status = "connected"
  /\ book # Null

\* ------------------------------------------------------------------- C39
\* C39: while the socket is intentionally closed (close() was called and
\* reconnect() has not been called since) no step invokes the onUpdate
\* callback, also not the handling of a book message that the closing
\* transport delivers before its close event.
C39_NoUpdateAfterClose ==
  [][ isIntentionallyClosed => ~updated' ]_vars

====
